---- MODULE Spec2Model ----
(***************************************************************************)
(* Model of the CV screening pipeline: main.py (procesar_candidato, local  *)
(* Ollama endpoint) and app.py (Streamlit button handler, cloud endpoint). *)
(* One behaviour is one pipeline run of one entry point.                   *)
(***************************************************************************)
EXTENDS Integers, Sequences, FiniteSets, TLC

VARIABLES
    entry,            \* "main" (main.py) or "app" (app.py)
    job_spec,         \* the job specification text
    archivo,          \* app.py: TRUE when a file was uploaded (archivo_subido)
    doc,              \* the PDF document handed to the Text Extractor
    pc,               \* the step the run is at
    texto_cv,         \* extracted text (sequence of characters)
    resultado_cv,     \* what the LLM Gateway returned to the structuring call
    cv_estructurado,  \* main.py: cv_estructurado; app.py: cv_json
    eval_input,       \* the candidate value serialised into the evaluation prompt
    resultado_eval,   \* what the LLM Gateway returned to the evaluation call
    evaluacion,       \* the evaluation record the run holds
    calls,            \* external calls made so far, in order
    requests,         \* requests issued to the inference endpoint
    respuestas,       \* the endpoint's answers to those requests, in order
    db_result,        \* outcome of the insert ("" before it)
    rows,             \* rows submitted to the table store (insert calls)
    logged,           \* TRUE once the run caught and logged a persistence error
    raised            \* exception that escaped the run ("" when none)

vars == <<entry, job_spec, archivo, doc, pc, texto_cv, resultado_cv,
          cv_estructurado, eval_input, resultado_eval, evaluacion, calls,
          requests, respuestas, db_result, rows, logged, raised>>

(***************************************************************************)
(* Bounds                                                                  *)
(***************************************************************************)
MaxPages == 2
MaxTextLen == 1
MaxExtra == 1

(***************************************************************************)
(* JSON values as Python sees them after json.loads                        *)
(***************************************************************************)
CVKeys == {"nombre", "email", "habilidades", "experiencia_años"}
EvalKeys == {"score", "decision", "razonamiento"}
ExtraKeys == {"extra" \o ToString(i) : i \in 1..MaxExtra}

EmptyMap == [k \in {} |-> 0]

JDict(m) == [kind |-> "dict", m |-> m, elems |-> {}, n |-> 0]
JList(s) == [kind |-> "list", m |-> EmptyMap, elems |-> s, n |-> 0]
JNum(k) == [kind |-> "number", m |-> EmptyMap, elems |-> {}, n |-> k]
JNull == [kind |-> "null", m |-> EmptyMap, elems |-> {}, n |-> 0]

EmptyDict == JDict(EmptyMap)

\* Python truthiness: `not x` is TRUE for {}, [], 0 and None.
Truthy(v) ==
    CASE v.kind = "dict" -> DOMAIN v.m # {}
      [] v.kind = "list" -> v.elems # {}
      [] v.kind = "number" -> v.n # 0
      [] OTHER -> FALSE

\* `k in x` raises TypeError when x is a number (None never gets that far).
InRaises(v) == v.kind \in {"number", "null"}

\* `k in x`: key membership for a dict, element membership for a list.
In(k, v) ==
    CASE v.kind = "dict" -> k \in DOMAIN v.m
      [] v.kind = "list" -> k \in v.elems
      [] OTHER -> FALSE

\* x.get(k, default); only a dict has .get (AttributeError otherwise).
HasGet(v) == v.kind = "dict"

Get(v, k, default) == IF k \in DOMAIN v.m THEN v.m[k] ELSE default

(***************************************************************************)
(* What the model may answer                                               *)
(***************************************************************************)
ModelValue(k) ==
    CASE k = "nombre" -> "Ana"
      [] k = "email" -> "ana@x.com"
      [] k = "habilidades" -> <<"Python", "SQL">>
      [] k = "experiencia_años" -> 4
      [] k = "score" -> 40
      [] k = "decision" -> "Apto"
      [] k = "razonamiento" -> "match parcial"
      [] OTHER -> "x"

MapOver(S) == [k \in S |-> ModelValue(k)]

JsonValues ==
    {JDict(MapOver(S)) : S \in SUBSET (CVKeys \cup ExtraKeys)}
    \cup {JDict(MapOver(S)) : S \in SUBSET (EvalKeys \cup ExtraKeys)}
    \cup {JList({}), JList(CVKeys), JList(EvalKeys), JNum(0), JNum(5), JNull}

\* A response of the inference endpoint: transport outcome, HTTP status,
\* whether the expected text field is there, and the payload text.
Response(t, s, f, w, v) ==
    [transport_ok |-> t, status |-> s, has_field |-> f, wellformed |-> w, value |-> v]

Responses ==
    {Response(FALSE, 0, FALSE, FALSE, JNull),
     Response(TRUE, 404, TRUE, TRUE, JDict(MapOver(CVKeys))),
     Response(TRUE, 500, TRUE, TRUE, JDict(MapOver(EvalKeys))),
     Response(TRUE, 200, FALSE, FALSE, JNull),
     Response(TRUE, 200, TRUE, FALSE, JNull)}
    \cup {Response(TRUE, 200, TRUE, TRUE, v) : v \in JsonValues}

(***************************************************************************)
(* Text Extractor                                                          *)
(***************************************************************************)
Alphabet == {"a", " ", "\n"}

IsSpace(c) == c \in {" ", "\n"}

RECURSIVE LStrip(_)
LStrip(s) == IF s # <<>> /\ IsSpace(Head(s)) THEN LStrip(Tail(s)) ELSE s

RECURSIVE RStrip(_)
RStrip(s) ==
    IF s # <<>> /\ IsSpace(s[Len(s)]) THEN RStrip(SubSeq(s, 1, Len(s) - 1)) ELSE s

\* str.strip()
Strip(s) == LStrip(RStrip(s))

\* for pagina in pdf.pages: if texto: texto_extraido += texto + "\n"
RECURSIVE AcumularPaginas(_)
AcumularPaginas(pages) ==
    IF pages = <<>> THEN <<>>
    ELSE (IF Head(pages) # <<>> THEN Head(pages) \o <<"\n">> ELSE <<>>)
         \o AcumularPaginas(Tail(pages))

\* Variant: the final strip() left out.
extraer_texto_sin_strip(d) ==
    IF d.open_ok THEN AcumularPaginas(d.pages) ELSE <<>>

extraer_texto_pdf(d) ==
    IF d.open_ok THEN Strip(AcumularPaginas(d.pages)) ELSE <<>>

extraer_texto_en_memoria(d) ==
    IF d.open_ok THEN Strip(AcumularPaginas(d.pages)) ELSE <<>>

SeqsUpTo(S, n) == UNION {[1..k -> S] : k \in 0..n}

Doc(ok, pages) == [open_ok |-> ok, pages |-> pages]

\* A page yields no text (None or "": the empty sequence) or some characters.
AllDocs ==
    {Doc(ok, p) : ok \in BOOLEAN, p \in SeqsUpTo(SeqsUpTo(Alphabet, MaxTextLen), MaxPages)}

PipelineDocs ==
    {Doc(FALSE, << <<"a">> >>),
     Doc(TRUE, <<>>),
     Doc(TRUE, << <<>> >>),
     Doc(TRUE, << <<" ">> >>),
     Doc(TRUE, << <<"a">> >>),
     Doc(TRUE, << <<"a">>, <<>>, <<"a", " ">> >>)}

(***************************************************************************)
(* LLM Gateway                                                             *)
(***************************************************************************)
\* response.raise_for_status(): HTTPError for 4xx and 5xx
RaiseForStatus(r) == 400 <= r.status /\ r.status < 600

interactuar_con_ollama(r) ==
    IF ~r.transport_ok THEN EmptyDict
    ELSE IF RaiseForStatus(r) THEN EmptyDict
    ELSE IF ~r.has_field THEN EmptyDict
    ELSE IF ~r.wellformed THEN EmptyDict
    ELSE r.value

\* The client raises on a transport error and on an error status; a missing
\* content makes json.loads raise; every exception is turned into {}.
interactuar_con_gpt(r) ==
    IF ~r.transport_ok \/ r.status # 200 THEN EmptyDict
    ELSE IF ~r.has_field \/ ~r.wellformed THEN EmptyDict
    ELSE r.value

(***************************************************************************)
(* CV Structurer and Candidate Evaluator (main.py only)                    *)
(***************************************************************************)
DefaultCV ==
    JDict([k \in CVKeys |->
        CASE k = "nombre" -> "Desconocido"
          [] k = "email" -> ""
          [] k = "habilidades" -> <<>>
          [] OTHER -> 0])

DefaultEval ==
    JDict([k \in EvalKeys |->
        CASE k = "score" -> 0
          [] k = "decision" -> "Error"
          [] OTHER -> "No se pudo obtener una evaluación válida."])

\* `not resultado or not all(k in resultado for k in keys)` raises TypeError
\* when resultado is a truthy value without membership.
ValidacionRaises(resultado) == Truthy(resultado) /\ InRaises(resultado)

FaltanCampos(resultado, keys) ==
    ~Truthy(resultado) \/ ~(\A k \in keys : In(k, resultado))

\* Variant: missing fields patched one by one instead of the whole record.
estructurar_cv_por_campo(resultado) ==
    IF resultado.kind = "dict" /\ Truthy(resultado)
    THEN JDict([k \in CVKeys |-> Get(resultado, k, DefaultCV.m[k])])
    ELSE DefaultCV

estructurar_cv(resultado) ==
    IF FaltanCampos(resultado, CVKeys) THEN DefaultCV ELSE resultado

\* Variant: the decision recomputed from the score (Apto when score >= 75).
evaluar_candidato_recalcula(resultado) ==
    IF FaltanCampos(resultado, EvalKeys) THEN DefaultEval
    ELSE IF resultado.kind # "dict" THEN resultado
    ELSE JDict([k \in DOMAIN resultado.m |->
            IF k = "decision"
            THEN (IF resultado.m["score"] >= 75 THEN "Apto" ELSE "No Apto")
            ELSE resultado.m[k]])

evaluar_candidato(resultado) ==
    IF FaltanCampos(resultado, EvalKeys) THEN DefaultEval ELSE resultado

(***************************************************************************)
(* Row handed to the table store                                           *)
(***************************************************************************)
data_insercion_main(cv, ev) ==
    [nombre_candidato |-> Get(cv, "nombre", "Sin Nombre"),
     datos_cv |-> cv,
     score |-> Get(ev, "score", 0),
     decision |-> Get(ev, "decision", "Error"),
     razonamiento |-> Get(ev, "razonamiento", "Sin razón")]

data_insercion_app(cv, ev) ==
    [nombre_candidato |-> Get(cv, "nombre", "Desconocido"),
     datos_cv |-> cv,
     score |-> Get(ev, "score", 0),
     decision |-> Get(ev, "decision", "Error"),
     razonamiento |-> Get(ev, "razonamiento", "Sin razón")]

\* Outcomes of supabase.table(...).insert(...).execute()
DbOutcomes == {"ok", "raises", "status_error"}

\* Variant: the run goes on whatever the extractor returned.
SinTexto_ignorado(texto) == FALSE

\* `if not texto_cv: return` / `if texto_cv:`
SinTexto(texto) == texto = <<>>

JobSpecs == {"", "Data Scientist"}

(***************************************************************************)
(* Initial states                                                          *)
(***************************************************************************)
InitRun ==
    /\ pc = "Extracting"
    /\ texto_cv = <<>>
    /\ resultado_cv = JNull
    /\ cv_estructurado = JNull
    /\ eval_input = JNull
    /\ resultado_eval = JNull
    /\ evaluacion = JNull
    /\ calls = <<>>
    /\ requests = 0
    /\ respuestas = <<>>
    /\ db_result = ""
    /\ rows = <<>>
    /\ logged = FALSE
    /\ raised = ""

Init ==
    /\ entry \in {"main", "app"}
    /\ job_spec \in (IF entry = "main" THEN {"Data Scientist"} ELSE JobSpecs)
    /\ archivo \in (IF entry = "main" THEN {TRUE} ELSE BOOLEAN)
    /\ doc \in PipelineDocs
    /\ InitRun

InitExtractor ==
    /\ entry \in {"main", "app"}
    /\ job_spec = "Data Scientist"
    /\ archivo = TRUE
    /\ doc \in AllDocs
    /\ InitRun

(***************************************************************************)
(* main.py: procesar_candidato                                             *)
(***************************************************************************)
MainExtract ==
    /\ entry = "main" /\ pc = "Extracting"
    /\ texto_cv' = extraer_texto_pdf(doc)
    /\ calls' = Append(calls, "extract")
    /\ pc' = IF SinTexto(texto_cv') THEN "Aborted" ELSE "Structuring"
    /\ UNCHANGED <<entry, job_spec, archivo, doc, resultado_cv, cv_estructurado,
                   eval_input, resultado_eval, evaluacion, requests,
                   respuestas, db_result, rows, logged, raised>>

\* estructurar_cv(texto_cv), then the print that reads cv_estructurado.get
MainStructure ==
    /\ entry = "main" /\ pc = "Structuring"
    /\ \E r \in Responses :
         LET resultado == interactuar_con_ollama(r) IN
           /\ resultado_cv' = resultado
           /\ calls' = Append(calls, "llm")
           /\ requests' = requests + 1
           /\ respuestas' = Append(respuestas, r)
           /\ IF ValidacionRaises(resultado)
              THEN /\ cv_estructurado' = cv_estructurado
                   /\ raised' = "TypeError"
                   /\ pc' = "Raised"
              ELSE /\ cv_estructurado' = estructurar_cv(resultado)
                   /\ IF HasGet(cv_estructurado')
                      THEN raised' = raised /\ pc' = "Evaluating"
                      ELSE raised' = "AttributeError" /\ pc' = "Raised"
    /\ UNCHANGED <<entry, job_spec, archivo, doc, texto_cv, eval_input,
                   resultado_eval, evaluacion, db_result, rows, logged>>

\* evaluar_candidato(cv_estructurado, job_spec), then the prints
MainEvaluate ==
    /\ entry = "main" /\ pc = "Evaluating"
    /\ eval_input' = cv_estructurado
    /\ \E r \in Responses :
         LET resultado == interactuar_con_ollama(r) IN
           /\ resultado_eval' = resultado
           /\ calls' = Append(calls, "llm")
           /\ requests' = requests + 1
           /\ respuestas' = Append(respuestas, r)
           /\ IF ValidacionRaises(resultado)
              THEN /\ evaluacion' = evaluacion
                   /\ raised' = "TypeError"
                   /\ pc' = "Raised"
              ELSE /\ evaluacion' = evaluar_candidato(resultado)
                   /\ IF HasGet(evaluacion')
                      THEN raised' = raised /\ pc' = "Persisting"
                      ELSE raised' = "AttributeError" /\ pc' = "Raised"
    /\ UNCHANGED <<entry, job_spec, archivo, doc, texto_cv, resultado_cv,
                   cv_estructurado, db_result, rows, logged>>

\* the try block: build the row, insert, report; except: report
MainPersist ==
    /\ entry = "main" /\ pc = "Persisting"
    /\ \E db \in DbOutcomes :
         /\ rows' = Append(rows, data_insercion_main(cv_estructurado, evaluacion))
         /\ calls' = Append(calls, "insert")
         /\ db_result' = db
         /\ logged' = (db \in {"raises", "status_error"})
    /\ pc' = "Done"
    /\ UNCHANGED <<entry, job_spec, archivo, doc, texto_cv, resultado_cv,
                   cv_estructurado, eval_input, resultado_eval, evaluacion,
                   requests, respuestas, raised>>

(***************************************************************************)
(* app.py: the button handler                                              *)
(***************************************************************************)
\* `if not job_spec or not archivo_subido: st.warning(...)`
EntradasIncompletas == job_spec = "" \/ ~archivo

AppReject ==
    /\ entry = "app" /\ pc = "Extracting"
    /\ EntradasIncompletas
    /\ pc' = "Rejected"
    /\ UNCHANGED <<entry, job_spec, archivo, doc, texto_cv, resultado_cv,
                   cv_estructurado, eval_input, resultado_eval, evaluacion,
                   calls, requests, respuestas, db_result, rows, logged, raised>>

AppExtract ==
    /\ entry = "app" /\ pc = "Extracting"
    /\ ~EntradasIncompletas
    /\ texto_cv' = extraer_texto_en_memoria(doc)
    /\ calls' = Append(calls, "extract")
    /\ pc' = IF SinTexto(texto_cv') THEN "Aborted" ELSE "Structuring"
    /\ UNCHANGED <<entry, job_spec, archivo, doc, resultado_cv, cv_estructurado,
                   eval_input, resultado_eval, evaluacion, requests,
                   respuestas, db_result, rows, logged, raised>>

\* cv_json = interactuar_con_gpt(prompt_estructura, sys_prompt_estructura)
AppStructure ==
    /\ entry = "app" /\ pc = "Structuring"
    /\ \E r \in Responses :
         /\ resultado_cv' = interactuar_con_gpt(r)
         /\ cv_estructurado' = resultado_cv'
         /\ respuestas' = Append(respuestas, r)
    /\ calls' = Append(calls, "llm")
    /\ requests' = requests + 1
    /\ pc' = "Evaluating"
    /\ UNCHANGED <<entry, job_spec, archivo, doc, texto_cv, eval_input,
                   resultado_eval, evaluacion, db_result, rows, logged, raised>>

\* evaluacion = interactuar_con_gpt(prompt_evaluacion, sys_prompt_eval)
AppEvaluate ==
    /\ entry = "app" /\ pc = "Evaluating"
    /\ eval_input' = cv_estructurado
    /\ \E r \in Responses :
         /\ resultado_eval' = interactuar_con_gpt(r)
         /\ evaluacion' = resultado_eval'
         /\ respuestas' = Append(respuestas, r)
    /\ calls' = Append(calls, "llm")
    /\ requests' = requests + 1
    /\ pc' = "Persisting"
    /\ UNCHANGED <<entry, job_spec, archivo, doc, texto_cv, resultado_cv,
                   cv_estructurado, db_result, rows, logged, raised>>

\* build data_insercion (.get on cv_json and evaluacion), insert, no try
AppPersist ==
    /\ entry = "app" /\ pc = "Persisting"
    /\ IF ~HasGet(cv_estructurado) \/ ~HasGet(evaluacion)
       THEN /\ raised' = "AttributeError"
            /\ pc' = "Raised"
            /\ UNCHANGED <<rows, calls, db_result>>
       ELSE \E db \in DbOutcomes :
            /\ db_result' = db
            /\ rows' = Append(rows, data_insercion_app(cv_estructurado, evaluacion))
            /\ calls' = Append(calls, "insert")
            /\ IF db = "raises"
               THEN raised' = "APIError" /\ pc' = "Raised"
               ELSE raised' = raised /\ pc' = "Done"
    /\ UNCHANGED <<entry, job_spec, archivo, doc, texto_cv, resultado_cv,
                   cv_estructurado, eval_input, resultado_eval, evaluacion,
                   requests, respuestas, logged>>

Next ==
    \/ MainExtract
    \/ MainStructure
    \/ MainEvaluate
    \/ MainPersist
    \/ AppReject
    \/ AppExtract
    \/ AppStructure
    \/ AppEvaluate
    \/ AppPersist

Spec == Init /\ [][Next]_vars

NextExtractor ==
    \/ MainExtract
    \/ AppExtract

SpecExtractor == InitExtractor /\ [][NextExtractor]_vars

(***************************************************************************)
(* Properties                                                              *)
(***************************************************************************)
Count(s, x) == Len(SelectSeq(s, LAMBDA e : e = x))

Finished == pc \in {"Done", "Aborted", "Raised"}

Keys(v) == DOMAIN v.m

\* the gateway answered both calls with a mapping
MappingResults ==
    /\ Len(respuestas) = 2
    /\ resultado_cv.kind = "dict"
    /\ resultado_eval.kind = "dict"

\* C1: once the Text Extractor has returned the empty string, the run makes
\* no call to the LLM Gateway and no insert, in either entry point.
C1_EmptyTextNoCalls ==
    (pc # "Extracting" /\ Count(calls, "extract") = 1 /\ texto_cv = <<>>) =>
        /\ pc = "Aborted"
        /\ Count(calls, "llm") = 0
        /\ requests = 0
        /\ Count(calls, "insert") = 0
        /\ rows = <<>>

\* C1 witness: the button handler aborted on a document whose only page
\* holds white space, having called the extractor and nothing else.
C1_Witness ==
    /\ entry = "app" /\ pc = "Aborted"
    /\ doc.open_ok /\ doc.pages # <<>>
    /\ calls = <<"extract">>

\* estructurar_cv has returned (main.py), having been given a mapping
StructurerReturnedOnMapping ==
    /\ entry = "main"
    /\ Len(respuestas) >= 1
    /\ resultado_cv.kind = "dict"

\* C2 as stated: for every mapping the gateway returns, estructurar_cv
\* returns a record with exactly the four keys, and the default record
\* whenever a required key is missing.
C2_ExactlyFourKeys ==
    StructurerReturnedOnMapping =>
        /\ cv_estructurado.kind = "dict"
        /\ Keys(cv_estructurado) = CVKeys
        /\ (~(CVKeys \subseteq Keys(resultado_cv)) => cv_estructurado = DefaultCV)

\* C2 amended: for every mapping the gateway returns, estructurar_cv returns
\* a mapping holding all four keys: the gateway's mapping itself, extra keys
\* included, when it has the four keys, and exactly the default record when
\* a required key is missing.
C2_FourKeysOrDefault ==
    StructurerReturnedOnMapping =>
        /\ cv_estructurado.kind = "dict"
        /\ CVKeys \subseteq Keys(cv_estructurado)
        /\ (~(CVKeys \subseteq Keys(resultado_cv)) => cv_estructurado = DefaultCV)
        /\ (CVKeys \subseteq Keys(resultado_cv) => cv_estructurado = resultado_cv)

\* C2 witness: the structurer was handed a mapping missing some but not all
\* of the required keys and the run went on to the evaluation.
C2_Witness ==
    /\ entry = "main" /\ pc = "Evaluating"
    /\ resultado_cv.kind = "dict"
    /\ "nombre" \in Keys(resultado_cv)
    /\ "email" \notin Keys(resultado_cv)

\* evaluar_candidato has returned (main.py), having been given a mapping
EvaluatorReturnedOnMapping ==
    /\ entry = "main"
    /\ Len(respuestas) = 2
    /\ resultado_eval.kind = "dict"

\* C3 as stated: for every mapping the gateway returns, evaluar_candidato
\* returns a record with exactly the three keys, the default when a key is
\* missing, and the model's score and decision when all are present.
C3_ExactlyThreeKeys ==
    EvaluatorReturnedOnMapping =>
        /\ evaluacion.kind = "dict"
        /\ Keys(evaluacion) = EvalKeys
        /\ (~(EvalKeys \subseteq Keys(resultado_eval)) => evaluacion = DefaultEval)
        /\ (EvalKeys \subseteq Keys(resultado_eval) =>
               /\ evaluacion.m["score"] = resultado_eval.m["score"]
               /\ evaluacion.m["decision"] = resultado_eval.m["decision"])

\* C3 amended: for every mapping the gateway returns, evaluar_candidato
\* returns a mapping holding all three keys: the gateway's mapping itself,
\* extra keys included and score and decision untouched, when it has the
\* three keys, and exactly the default record when a key is missing.
C3_ThreeKeysOrDefault ==
    EvaluatorReturnedOnMapping =>
        /\ evaluacion.kind = "dict"
        /\ EvalKeys \subseteq Keys(evaluacion)
        /\ (~(EvalKeys \subseteq Keys(resultado_eval)) => evaluacion = DefaultEval)
        /\ (EvalKeys \subseteq Keys(resultado_eval) =>
               /\ evaluacion = resultado_eval
               /\ evaluacion.m["score"] = respuestas[2].value.m["score"]
               /\ evaluacion.m["decision"] = respuestas[2].value.m["decision"])

\* C3 witness: the evaluator was handed all three keys, with a score under
\* the advisory threshold and the decision "Apto", and the run went on.
C3_Witness ==
    /\ entry = "main" /\ pc = "Persisting"
    /\ EvalKeys \subseteq Keys(resultado_eval)
    /\ resultado_eval.m["score"] < 75
    /\ evaluacion.m["decision"] = "Apto"

\* C4: whenever the gateway answers with mappings, the candidate value put
\* in the evaluation prompt and the datos_cv of every submitted row hold
\* all four keys, in both entry points.
C4_FourKeysDownstream ==
    /\ (Len(respuestas) = 2 /\ resultado_cv.kind = "dict") =>
           CVKeys \subseteq Keys(eval_input)
    /\ \A i \in 1..Len(rows) :
           resultado_cv.kind = "dict" => CVKeys \subseteq Keys(rows[i].datos_cv)

\* C5: a finished run with text in which the gateway failed (returned the
\* empty mapping) on a call made both calls and exactly one insert, and the
\* row carries the whole default record of each failed stage.
C5_DefaultsOnGatewayFailure ==
    (Finished /\ texto_cv # <<>> /\ MappingResults
       /\ (resultado_cv = EmptyDict \/ resultado_eval = EmptyDict)) =>
        /\ Count(calls, "llm") = 2
        /\ Len(rows) = 1
        /\ (resultado_cv = EmptyDict =>
               /\ rows[1].nombre_candidato = "Desconocido"
               /\ rows[1].datos_cv = DefaultCV)
        /\ (resultado_eval = EmptyDict =>
               /\ rows[1].score = 0
               /\ rows[1].decision = "Error"
               /\ rows[1].razonamiento = DefaultEval.m["razonamiento"])

\* the endpoint answer that the gateway must turn into the empty mapping
FailedResponse(r) ==
    \/ ~r.transport_ok
    \/ r.status < 200 \/ r.status >= 300
    \/ ~r.has_field
    \/ ~r.wellformed

Resultado(i) == IF i = 1 THEN resultado_cv ELSE resultado_eval

\* C6: every gateway invocation issues one request, returns a mapping, and
\* returns the empty mapping on a transport error, a non-2xx status, a
\* missing text field and an unparseable payload.
C6_GatewayReturnsMapping ==
    /\ requests = Count(calls, "llm")
    /\ requests = Len(respuestas)
    /\ \A i \in 1..Len(respuestas) :
           /\ Resultado(i).kind = "dict"
           /\ (FailedResponse(respuestas[i]) => Resultado(i) = EmptyDict)

\* C7: when the insert raises or reports failure, the run logs the error,
\* lets no exception out, has attempted the insert once, and still holds the
\* structured candidate and the evaluation it had computed.
C7_InsertFailureCaught ==
    db_result \in {"raises", "status_error"} =>
        /\ logged
        /\ raised = ""
        /\ Count(calls, "insert") = 1
        /\ Len(rows) = 1
        /\ rows[1].datos_cv = cv_estructurado
        /\ eval_input = cv_estructurado

\* the pages that yield text, in page order
TextBearing(pages) == SelectSeq(pages, LAMBDA t : t # <<>>)

\* texts joined by exactly one newline
RECURSIVE JoinNewline(_)
JoinNewline(texts) ==
    IF texts = <<>> THEN <<>>
    ELSE IF Len(texts) = 1 THEN Head(texts)
    ELSE Head(texts) \o <<"\n">> \o JoinNewline(Tail(texts))

NoOuterSpace(s) == s = <<>> \/ (~IsSpace(s[1]) /\ ~IsSpace(s[Len(s)]))

\* t is s without the white space at its two ends
IsTrimOf(t, s) ==
    /\ NoOuterSpace(t)
    /\ \E i \in 0..Len(s) :
         /\ i + Len(t) <= Len(s)
         /\ SubSeq(s, i + 1, i + Len(t)) = t
         /\ \A j \in 1..Len(s) : (j <= i \/ j > i + Len(t)) => IsSpace(s[j])

C9_FixedOrder ==
    /\ \E n \in 0..4 : calls = SubSeq(<<"extract", "llm", "llm", "insert">>, 1, n)
    /\ (Finished /\ texto_cv = <<>>) => (pc = "Aborted" /\ calls = <<"extract">>)
    /\ (Finished /\ texto_cv # <<>>) =>
           (pc = "Done" /\ calls = <<"extract", "llm", "llm", "insert">>)

\* C10: whenever the gateway answers with mappings, every submitted row's
\* nombre_candidato is the nombre inside its datos_cv, and its score,
\* decision and razonamiento are those of the evaluation record.
C10_RowMatchesRecords ==
    \A i \in 1..Len(rows) :
        MappingResults =>
            /\ "nombre" \in Keys(rows[i].datos_cv)
            /\ rows[i].nombre_candidato = rows[i].datos_cv.m["nombre"]
            /\ EvalKeys \subseteq Keys(evaluacion)
            /\ rows[i].score = evaluacion.m["score"]
            /\ rows[i].decision = evaluacion.m["decision"]
            /\ rows[i].razonamiento = evaluacion.m["razonamiento"]
====
